---- MODULE Spec2Model ----
(***************************************************************************)
(* Governance voting stream: the define-rules validator                    *)
(* (HcsRulesProcessingService), the rule store it writes to, the start     *)
(* date filter of the application configuration, and the ballot and vote   *)
(* validators.                                                             *)
(*                                                                         *)
(* JavaScript values are encoded with one TLA+ type per field:             *)
(*   entity ids  : sequences of integers, <<0,0,100>> for "0.0.100";       *)
(*                 <<>> is a missing (undefined or empty) value            *)
(*   strings     : TLA+ strings, Undefined for an absent field             *)
(*   numbers     : [t |-> "undefined" | "number" | "nan" | "string",       *)
(*                  v |-> the value ToNumber gives, ok |-> ToNumber is     *)
(*                  not NaN]                                               *)
(*   lists       : [t |-> "undefined" | "array" | "other", v |-> entries]  *)
(***************************************************************************)
EXTENDS Integers, Sequences, FiniteSets, TLC

VARIABLES
    service,    \* which HcsRulesProcessingService source file is wired in
    rules,      \* DataService: the stored rules of each engine, in order
    pc,         \* each engine's position: "idle", "effect" or "halted"
    pending,    \* the rule captured by the closure processMessage returned
    outcome,    \* what the last processed message logged
    calls,      \* token-info requests made to the mirror for the last message
    stream,     \* the ordered topic messages (replay specifications)
    pos,        \* index of the next stream message of each engine
    startDate,  \* hcsStartDate of each engine's configuration
    ballots,    \* DataService: the stored ballots
    votes,      \* DataService: the stored votes, one per ballot and voter
    clock,      \* consensus timestamp of the last message the source delivered
    config      \* the environment at startup and what loadAppConfiguration made of it

voting == <<ballots, votes, clock>>

vars == <<service, rules, pc, pending, outcome, calls, stream, pos, startDate, voting, config>>

\* ------------------------------------------------------------------ bounds

\* Consensus timestamps of the pipeline specification are 1..MaxTs.
MaxTs == 2

\* Length of the topic stream of the replay specification.
MaxStream == 3

\* Consensus timestamps of the voting specification are 0..MaxTime.
MaxTime == 3

\* The voting specification admits at most MaxBallots ballots.
MaxBallots == 1

Engines == {1, 2}

\* The configuration of an engine that is already running.
NoConfig == <<>>

\* ------------------------------------------------------- JavaScript values

Undefined == "undefined"

NumUndefined == [t |-> "undefined", v |-> 0, ok |-> FALSE]
NaN == [t |-> "nan", v |-> 0, ok |-> FALSE]
Num(n) == [t |-> "number", v |-> n, ok |-> TRUE]
\* A string that is no number, such as "abc".
Text == [t |-> "string", v |-> 0, ok |-> FALSE]

ListUndefined == [t |-> "undefined", v |-> <<>>]
Arr(s) == [t |-> "array", v |-> s]
\* A value that is present, truthy and no array, such as the string "0.0.9".
NotAList == [t |-> "other", v |-> <<>>]
\* A value that is present, falsy and no array: "", 0 or false.
FalsyNotAList == [t |-> "falsy", v |-> <<>>]

\* Thresholds are held in halves: 2 stands for the literal 1 of the range check.
ThresholdOne == 2

\* !x of a string
FalsyStr(s) == s = Undefined \/ s = ""

\* !x of a number-valued field: undefined, 0, NaN; a non-empty string is truthy
FalsyNum(x) ==
    \/ x.t = "undefined"
    \/ x.t = "nan"
    \/ x.t = "number" /\ x.v = 0

\* Number.isNaN(x): true of the number NaN alone, no coercion
NumberIsNaN(x) == x.t = "nan"

\* x < n and x > n after ToNumber: false whenever ToNumber(x) is NaN
JsLess(x, n) == x.ok /\ x.v < n
JsGreater(x, n) == x.ok /\ x.v > n

\* is_entity_id: the shard.realm.num shape
is_entity_id(id) == Len(id) = 3 /\ \A i \in 1..3 : id[i] >= 0

\* ---------------------------------------------------------------- gateway

TokOk == <<0, 0, 100>>
TokNotFound == <<0, 0, 404>>
TokUnreachable == <<0, 0, 500>>
TokMalformed == <<0, 100>>
TokMissing == <<>>

\* mirrorClient.getTokenInfo: a token summary, a MirrorError with status 404, or
\* another failure.  The same query has the same answer throughout a run.
getTokenInfo(tokenId) ==
    CASE tokenId = TokOk -> [threw |-> FALSE, symbol |-> "SYM", name |-> "Token Name", error |-> ""]
      [] tokenId = TokNotFound -> [threw |-> TRUE, symbol |-> "", name |-> "", error |-> "token 404"]
      [] OTHER -> [threw |-> TRUE, symbol |-> "", name |-> "", error |-> "token unreachable"]

\* ------------------------------------------------------------ DataService

\* The store of one engine is the sequence of its rules, in insertion order.

getFirstRule(store) == IF store = <<>> THEN <<>> ELSE <<store[1]>>

getLatestRule(store) == IF store = <<>> THEN <<>> ELSE <<store[Len(store)]>>

getRule(store, consensusTimestamp) ==
    IF \E i \in 1..Len(store) : store[i].consensusTimestamp = consensusTimestamp
      THEN <<store[CHOOSE i \in 1..Len(store) : store[i].consensusTimestamp = consensusTimestamp]>>
      ELSE <<>>

\* Insert keyed by consensus timestamp: a later insert for the same key replaces.
setRule(store, rule) ==
    IF getRule(store, rule.consensusTimestamp) # <<>>
      THEN [i \in 1..Len(store) |->
              IF store[i].consensusTimestamp = rule.consensusTimestamp THEN rule ELSE store[i]]
      ELSE Append(store, rule)

\* ------------------------------------------- HcsRulesProcessingService

\* A rule built with the payload spread last, so that identity fields the
\* payload carries replace the mirror record's.
BuildRuleSpreadLast(m) ==
    [m.payload EXCEPT
        !.consensusTimestamp = IF @ # 0 THEN @ ELSE m.ts,
        !.payerId = IF @ # <<>> THEN @ ELSE m.payer]

\* const rule = { ...hcsPayload, consensusTimestamp: ..., payerId: ... }
BuildRule(m) ==
    [m.payload EXCEPT !.consensusTimestamp = m.ts, !.payerId = m.payer]

\* getHcsTokenInfo: the two local checks, then the mirror's answer.  The mirror
\* promise is returned without await, so its rejection passes the inner catch
\* as it is and reaches the caller's catch.
getHcsTokenInfo(rule) ==
    IF rule.tokenId = <<>>
      THEN [threw |-> TRUE, symbol |-> "", name |-> "", error |-> "token missing", calls |-> 0]
    ELSE IF ~is_entity_id(rule.tokenId)
      THEN [threw |-> TRUE, symbol |-> "", name |-> "", error |-> "token invalid", calls |-> 0]
    ELSE LET r == getTokenInfo(rule.tokenId)
         IN  [threw |-> r.threw, symbol |-> r.symbol, name |-> r.name, error |-> r.error, calls |-> 1]

\* TRUE when verifyAccountList throws
verifyAccountListThrows(accounts) ==
    IF accounts.t \in {"undefined", "falsy"} THEN FALSE
    ELSE IF accounts.t = "array"
      THEN \E i \in 1..Len(accounts.v) : ~is_entity_id(accounts.v[i])
    ELSE TRUE

\* TRUE when verifyMinVotingThreshold throws
verifyMinVotingThresholdThrows(rule) ==
    IF FalsyNum(rule.minVotingThreshold) THEN FALSE
    ELSE IF NumberIsNaN(rule.minVotingThreshold) THEN TRUE
    ELSE JsLess(rule.minVotingThreshold, 0) \/ JsGreater(rule.minVotingThreshold, ThresholdOne)

\* TRUE when verifyMinimumVotingPeriod throws
verifyMinimumVotingPeriodThrows(rule) ==
    IF FalsyNum(rule.minimumVotingPeriod) THEN FALSE
    ELSE IF NumberIsNaN(rule.minimumVotingPeriod) THEN TRUE
    ELSE JsLess(rule.minimumVotingPeriod, 0)

\* TRUE when verifyMinimumStandoffPeriod throws
verifyMinimumStandoffPeriodThrows(rule) ==
    IF FalsyNum(rule.minimumStandoffPeriod) THEN FALSE
    ELSE IF NumberIsNaN(rule.minimumStandoffPeriod) THEN TRUE
    ELSE JsLess(rule.minimumStandoffPeriod, 0)

\* A backfill that takes the token's symbol and name whatever the payload gave.
BackfillOverwrites(rule, hcsToken) ==
    [rule EXCEPT !.title = hcsToken.symbol, !.description = hcsToken.name]

\* rule.title = rule.title || hcsToken.symbol; the same for the description
Backfill(rule, hcsToken) ==
    [rule EXCEPT
        !.title = IF FalsyStr(rule.title) THEN hcsToken.symbol ELSE rule.title,
        !.description = IF FalsyStr(rule.description) THEN hcsToken.name ELSE rule.description]

\* The message of the first exception the try block raises, "" when it raises
\* none: the token lookup, then the five verifications in the code's order.
TryError(rule, hcsToken) ==
    IF hcsToken.threw THEN hcsToken.error
    ELSE IF verifyAccountListThrows(rule.ineligibleAccounts) THEN "ineligibleAccounts"
    ELSE IF verifyAccountListThrows(rule.ballotCreators) THEN "ballotCreators"
    ELSE IF verifyMinVotingThresholdThrows(rule) THEN "minVotingThreshold"
    ELSE IF verifyMinimumVotingPeriodThrows(rule) THEN "minimumVotingPeriod"
    ELSE IF verifyMinimumStandoffPeriodThrows(rule) THEN "minimumStandoffPeriod"
    ELSE ""

\* A try block that stores the rule before it verifies it.
TryAddRuleStoresFirst(store, rule) ==
    LET hcsToken == getHcsTokenInfo(rule)
        filled == Backfill(rule, hcsToken)
        error == TryError(filled, hcsToken)
    IN  [threw |-> error # "", error |-> error, rules |-> setRule(store, filled),
         calls |-> hcsToken.calls]

\* The body of the try block: the lookup, the backfill, the verifications,
\* then setRule.
TryAddRule(store, rule) ==
    LET hcsToken == getHcsTokenInfo(rule)
        filled == Backfill(rule, hcsToken)
        error == TryError(filled, hcsToken)
    IN  IF error # ""
          THEN [threw |-> TRUE, error |-> error, rules |-> store, calls |-> hcsToken.calls]
          ELSE [threw |-> FALSE, error |-> "", rules |-> setRule(store, filled), calls |-> hcsToken.calls]

\* A catch that lets the exception go on to the dispatcher.
CatchAndLogRethrows(t) ==
    [rules |-> t.rules, calls |-> t.calls, threw |-> t.threw,
     outcome |-> IF t.threw THEN t.error ELSE "Added"]

\* catch (ex) { this.logger.error(...) }: the exception ends here, logged.
CatchAndLog(t) ==
    [rules |-> t.rules, calls |-> t.calls, threw |-> FALSE,
     outcome |-> IF t.threw THEN t.error ELSE "Added"]

\* A duplicate check that looks at the latest rule only.
RuleAlreadyExistsLatestOnly(store, rule) ==
    getLatestRule(store) # <<>> /\ getLatestRule(store)[1].consensusTimestamp = rule.consensusTimestamp

\* A duplicate check that finds nothing.
RuleAlreadyExistsNever(store, rule) == FALSE

\* if (this.dataService.getRule(rule.consensusTimestamp))
RuleAlreadyExists(store, rule) == getRule(store, rule.consensusTimestamp) # <<>>

\* A closure that asks the mirror before it looks for a duplicate.
ValidatingEffectLooksUpFirst(store, rule) ==
    IF RuleAlreadyExists(store, rule)
      THEN [rules |-> store, calls |-> getHcsTokenInfo(rule).calls, threw |-> FALSE,
            outcome |-> "RuleExists"]
      ELSE CatchAndLog(TryAddRule(store, rule))

\* The closure returned by processMessage of the validating service.
ValidatingEffect(store, rule) ==
    IF RuleAlreadyExists(store, rule)
      THEN [rules |-> store, calls |-> 0, threw |-> FALSE, outcome |-> "RuleExists"]
      ELSE CatchAndLog(TryAddRule(store, rule))

\* The closure returned by processMessage of the service without validation.
PlainEffect(store, rule) ==
    IF RuleAlreadyExists(store, rule)
      THEN [rules |-> store, calls |-> 0, threw |-> FALSE, outcome |-> "RuleExists"]
      ELSE [rules |-> setRule(store, rule), calls |-> 0, threw |-> FALSE, outcome |-> "Added"]

\* The authority check with its comparison inverted.
NotFirstSubmitterInverted(store, rule) ==
    getFirstRule(store) # <<>> /\ getFirstRule(store)[1].payerId = rule.payerId

\* The synchronous part of processMessage, the same in both services: the
\* closure when there is no first rule or the payer is the first rule's payer,
\* noop otherwise.
NotFirstSubmitter(store, rule) ==
    getFirstRule(store) # <<>> /\ getFirstRule(store)[1].payerId # rule.payerId

processMessage(store, m) ==
    LET rule == BuildRule(m)
    IN  IF NotFirstSubmitter(store, rule)
          THEN [noop |-> TRUE, rule |-> rule]
          ELSE [noop |-> FALSE, rule |-> rule]

Effect(svc, store, rule) ==
    IF svc = "validating" THEN ValidatingEffect(store, rule) ELSE PlainEffect(store, rule)

\* ----------------------------------------------------------------- inputs

Payer5 == <<0, 0, 5>>
Payer6 == <<0, 0, 6>>
Payers == {Payer5, Payer6}
Account9 == <<0, 0, 9>>

\* The payload of the service's documentation: every field present and valid.
\* A payload may carry fields named payerId and consensusTimestamp of its own;
\* <<>> and 0 stand for their absence.
BasePayload ==
    [title |-> "Governance Voting Platform",
     description |-> "A decentralized voting platform",
     tokenId |-> TokOk,
     minVotingThreshold |-> Num(1),
     minimumVotingPeriod |-> Num(2),
     minimumStandoffPeriod |-> Num(1),
     ineligibleAccounts |-> Arr(<<Account9>>),
     ballotCreators |-> ListUndefined,
     payerId |-> <<>>,
     consensusTimestamp |-> 0]

\* A second valid payload: title and description left to the token, other
\* economics, and identity fields of its own naming the other payer.
AltPayload ==
    [BasePayload EXCEPT
        !.title = Undefined, !.description = "",
        !.minVotingThreshold = Num(ThresholdOne),
        !.minimumVotingPeriod = NumUndefined, !.minimumStandoffPeriod = Num(0),
        !.ineligibleAccounts = ListUndefined, !.ballotCreators = Arr(<<Payer5>>),
        !.payerId = Payer6, !.consensusTimestamp = 1]

\* The values a token id field takes.
TokenValues == {TokOk, TokNotFound, TokUnreachable, TokMalformed, TokMissing}

\* The define-rules payloads of the pipeline: the two valid ones and payloads
\* that differ from the documented one in a single field.
Payloads ==
    {BasePayload, AltPayload}
    \cup {[BasePayload EXCEPT !.tokenId = t] : t \in TokenValues}
    \cup {[BasePayload EXCEPT !.minVotingThreshold = x] : x \in {Num(ThresholdOne + 1), Text}}
    \cup {[BasePayload EXCEPT !.minimumVotingPeriod = x] : x \in {Num(-1)}}
    \cup {[BasePayload EXCEPT !.ineligibleAccounts = x] : x \in {NotAList, FalsyNotAList}}

Timestamps == 1..MaxTs

\* A topic message: the mirror record's payer and consensus timestamp, and the
\* parsed payload.
Messages == [payer : Payers, ts : Timestamps, payload : Payloads]

Services == {"validating", "plain"}

\* ---------------------------------------------------------------- actions

Init ==
    /\ service \in Services
    /\ ballots = {} /\ votes = {} /\ clock = 0 /\ config = NoConfig
    /\ rules = [e \in Engines |-> <<>>]
    /\ pc = [e \in Engines |-> "idle"]
    /\ pending = [e \in Engines |-> <<>>]
    /\ outcome = [e \in Engines |-> "None"]
    /\ calls = [e \in Engines |-> 0]
    /\ stream = <<>>
    /\ pos = [e \in Engines |-> 1]
    /\ startDate = [e \in Engines |-> 0]

\* A dispatcher that never waits for the closure of the message before.
EffectLandedNoWait(e) == TRUE

\* The dispatcher runs a message's closure to completion before it dispatches
\* the next message.
EffectLanded(e) == pc[e] = "idle"

\* The dispatcher hands message m to processMessage: either noop comes back and
\* the message is done, or the closure comes back, to be run before the next
\* message is dispatched.
Dispatch(e, m) ==
    LET r == processMessage(rules[e], m)
    IN  /\ EffectLanded(e)
        /\ IF r.noop
             THEN /\ outcome' = [outcome EXCEPT ![e] = "NotFirstSubmitter"]
                  /\ UNCHANGED <<pc, pending>>
             ELSE /\ outcome' = [outcome EXCEPT ![e] = "Deferred"]
                  /\ pc' = [pc EXCEPT ![e] = "effect"]
                  /\ pending' = [pending EXCEPT ![e] = <<r.rule>>]
        /\ calls' = [calls EXCEPT ![e] = 0]
        /\ UNCHANGED <<service, rules>>

\* The closure runs to completion; an exception leaving it halts the engine.
RunEffect(e) ==
    /\ pc[e] = "effect"
    /\ LET r == Effect(service, rules[e], pending[e][1])
       IN  /\ rules' = [rules EXCEPT ![e] = r.rules]
           /\ calls' = [calls EXCEPT ![e] = r.calls]
           /\ outcome' = [outcome EXCEPT ![e] = IF r.threw THEN "Uncaught" ELSE r.outcome]
           /\ pc' = [pc EXCEPT ![e] = IF r.threw THEN "halted" ELSE "idle"]
    /\ pending' = [pending EXCEPT ![e] = <<>>]
    /\ UNCHANGED service

Receive == \E m \in Messages : Dispatch(1, m) /\ UNCHANGED <<stream, pos, startDate, config, voting>>

Complete == RunEffect(1) /\ UNCHANGED <<stream, pos, startDate, config, voting>>

Next == Receive \/ Complete

\* One engine fed any define-rules messages, one at a time.
Spec == Init /\ [][Next]_vars

\* ------------------------------------------------------ AppController

\* getInfo: the rule it reports as current is the store's latest rule.
getInfo(store) == getLatestRule(store)

\* ----------------------------------------------------- claims: pipeline

\* What a message that failed validation logs.
Rejections ==
    {"NotFirstSubmitter", "RuleExists", "token missing", "token invalid", "token 404",
     "token unreachable", "ineligibleAccounts", "ballotCreators", "minVotingThreshold",
     "minimumVotingPeriod", "minimumStandoffPeriod"}

IsPrefix(s, t) == Len(s) <= Len(t) /\ \A i \in 1..Len(s) : s[i] = t[i]

StoredTimestamps(store) == {store[i].consensusTimestamp : i \in 1..Len(store)}

\* Message m, dispatched now, is turned away as not from the first submitter:
\* no closure, no exception, the rules as they were.
TurnedAway(m) ==
    ENABLED (/\ Dispatch(1, m)
             /\ rules' = rules
             /\ pc'[1] = "idle"
             /\ pending'[1] = <<>>
             /\ outcome'[1] = "NotFirstSubmitter")

\* C1 (single authority): every rule in the store has the payer of the first
\* stored rule; no closure is pending for another payer's message; and once a
\* rule is stored, the dispatch of any message of another payer ends at once,
\* with no exception, the rules unchanged and the message logged as not from
\* the first submitter.
C1_SingleAuthority ==
    /\ \A i \in 1..Len(rules[1]) : rules[1][i].payerId = rules[1][1].payerId
    /\ (rules[1] # <<>> /\ pending[1] # <<>>) => pending[1][1].payerId = rules[1][1].payerId
    /\ (rules[1] # <<>> /\ pc[1] = "idle") =>
          \A m \in Messages : m.payer # rules[1][1].payerId => TurnedAway(m)

\* C1 witness: a message was rejected as not from the first submitter while a
\* rule of another payer is stored.
C1_Witness ==
    /\ outcome[1] = "NotFirstSubmitter"
    /\ Len(rules[1]) = 2
    /\ rules[1][1].payerId = Payer6

\* C2 (idempotent admission): no consensus timestamp is stored twice, and
\* running the closure of a message whose consensus timestamp is that of a
\* stored rule leaves the store as it is and logs that the rule exists.
C2_Idempotent ==
    /\ [](Cardinality(StoredTimestamps(rules[1])) = Len(rules[1]))
    /\ [][(/\ pc[1] = "effect"
            /\ pending[1][1].consensusTimestamp \in StoredTimestamps(rules[1]))
              => (rules' = rules /\ outcome'[1] = "RuleExists")]_vars

\* C2 witness: with two rules stored, the closure of a message stamped as one
\* of them ran and found the rule to exist already.
C2_Witness ==
    /\ outcome[1] = "RuleExists"
    /\ Len(rules[1]) = 2
    /\ pc[1] = "idle"

C6_NeverHalts ==
    /\ [](pc[1] # "halted" /\ outcome[1] # "Uncaught")
    /\ [][outcome'[1] \in Rejections
            => (rules' = rules /\ pc'[1] = "idle" /\ pending'[1] = <<>>)]_vars

\* C6 witness: the mirror was asked and was unreachable, the message was
\* dropped and a later message is being processed.
C6_Witness ==
    /\ outcome[1] = "token unreachable"
    /\ calls[1] = 1
    /\ pc[1] = "idle"
    /\ service = "validating"

\* C7 (token validation gates admission): every stored rule has a well-formed
\* token id that the mirror resolved.
C7_TokenGate ==
    \A i \in 1..Len(rules[1]) :
        /\ is_entity_id(rules[1][i].tokenId)
        /\ ~getTokenInfo(rules[1][i].tokenId).threw

\* A number that is absent or lies in lo..hi.
AbsentOrWithin(x, lo, hi) ==
    x.t = "undefined" \/ (x.t = "number" /\ lo <= x.v /\ x.v <= hi)

AbsentOrNonNegative(x) == x.t = "undefined" \/ (x.t = "number" /\ x.v >= 0)

\* C8 (economics in range): every rule the validating service stored has a
\* threshold that is absent or a number in [0,1], and periods that are absent
\* or non-negative numbers.
C8_EconomicsInRange ==
    service = "validating" =>
        \A i \in 1..Len(rules[1]) :
            /\ AbsentOrWithin(rules[1][i].minVotingThreshold, 0, ThresholdOne)
            /\ AbsentOrNonNegative(rules[1][i].minimumVotingPeriod)
            /\ AbsentOrNonNegative(rules[1][i].minimumStandoffPeriod)

\* An account list field that is absent, or a list of account ids.
AbsentOrAccountList(x) ==
    \/ x.t = "undefined"
    \/ x.t = "array" /\ \A i \in 1..Len(x.v) : is_entity_id(x.v[i])

\* C12 (account lists well-formed): in every rule the validating service
\* stored, the ineligible-accounts value and the ballot-creators value are each
\* absent or a list whose every entry has the account-id shape.
C12_AccountLists ==
    service = "validating" =>
        \A i \in 1..Len(rules[1]) :
            /\ AbsentOrAccountList(rules[1][i].ineligibleAccounts)
            /\ AbsentOrAccountList(rules[1][i].ballotCreators)

\* ------------------------------------------------------------------ replay

\* HCS_START_DATE as the environment gives it: absent, the empty string, a
\* timestamp, or text that is no timestamp.  Timestamps are whole seconds
\* here, written as the key string "<seconds>.0"; '0.0' is 0.
NoOverride == [t |-> "undefined", v |-> 0]
EmptyOverride == [t |-> "empty", v |-> 0]
StartAt(n) == [t |-> "timestamp", v |-> n]
BadOverride == [t |-> "invalid", v |-> 0]

is_timestamp(x) == x.t = "timestamp"

\* The character '.', which sorts before every digit.
Dot == -1

RECURSIVE Digits(_)
\* The decimal digits of n, most significant first.
Digits(n) == IF n < 10 THEN <<n>> ELSE Append(Digits(n \div 10), n % 10)

\* date_to_keyString, and the text of a timestamp override: "<seconds>.0"
KeyString(n) == Digits(n) \o <<Dot, 0>>

RECURSIVE StringGreater(_, _)
\* a > b of two strings: by the first character in which they differ, a proper
\* prefix being the smaller.
StringGreater(a, b) ==
    IF a = <<>> THEN FALSE
    ELSE IF b = <<>> THEN TRUE
    ELSE IF Head(a) # Head(b) THEN Head(a) > Head(b)
    ELSE StringGreater(Tail(a), Tail(b))

\* override > date_to_keyString(new Date()): both operands are strings
Later(a, b) == StringGreater(KeyString(a), KeyString(b))

\* computeStartDateFilter: the override when one is given, is a timestamp and
\* does not compare greater than the clock's key string; an error when it is
\* given and is not; '0.0' (replay the entire stream) when none is given or it
\* is the empty string.
computeStartDateFilter(override, now) ==
    IF override.t \notin {"undefined", "empty"}
      THEN IF ~is_timestamp(override) THEN [threw |-> TRUE, value |-> 0]
           ELSE IF Later(override.v, now) THEN [threw |-> TRUE, value |-> 0]
           ELSE [threw |-> FALSE, value |-> override.v]
      ELSE [threw |-> FALSE, value |-> 0]

\* The payloads of the replayed stream.
ReplayPayloads == {BasePayload, AltPayload, [BasePayload EXCEPT !.tokenId = TokNotFound]}

\* The topic: message i has consensus timestamp i.
Streams ==
    {[i \in 1..MaxStream |-> [payer |-> s[i].payer, ts |-> i, payload |-> s[i].payload]] :
        s \in [1..MaxStream -> [payer : Payers, payload : ReplayPayloads]]}

\* Two engines with empty stores are given the same topic.  Engine 1 replays
\* the entire stream; engine 2 starts from whatever its HCS_START_DATE allows.
InitReplay ==
    /\ service \in Services
    /\ ballots = {} /\ votes = {} /\ clock = 0 /\ config = NoConfig
    /\ rules = [e \in Engines |-> <<>>]
    /\ pc = [e \in Engines |-> "idle"]
    /\ pending = [e \in Engines |-> <<>>]
    /\ outcome = [e \in Engines |-> "None"]
    /\ calls = [e \in Engines |-> 0]
    /\ stream \in Streams
    /\ pos = [e \in Engines |-> 1]
    /\ \E override \in {NoOverride, BadOverride} \cup {StartAt(n) : n \in 1..(MaxStream + 1)} :
         LET first == computeStartDateFilter(NoOverride, MaxStream)
             second == computeStartDateFilter(override, MaxStream)
         IN  /\ ~first.threw /\ ~second.threw
             /\ startDate = [e \in Engines |-> IF e = 1 THEN first.value ELSE second.value]

\* The message source's start-time filter: it delivers no message stamped
\* before the engine's hcsStartDate.
BeforeStart(e, m) == m.ts < startDate[e]

Filtered(e) ==
    /\ EffectLanded(e)
    /\ pos[e] <= Len(stream)
    /\ BeforeStart(e, stream[pos[e]])
    /\ pos' = [pos EXCEPT ![e] = @ + 1]
    /\ UNCHANGED <<service, rules, pc, pending, outcome, calls, stream, startDate, config, voting>>

Deliver(e) ==
    /\ pos[e] <= Len(stream)
    /\ ~BeforeStart(e, stream[pos[e]])
    /\ Dispatch(e, stream[pos[e]])
    /\ pos' = [pos EXCEPT ![e] = @ + 1]
    /\ UNCHANGED <<stream, startDate, config, voting>>

Finish(e) == RunEffect(e) /\ UNCHANGED <<stream, pos, startDate, config, voting>>

NextReplay == \E e \in Engines : Filtered(e) \/ Deliver(e) \/ Finish(e)

\* Two engines, each at its own pace, fed the same ordered stream.
SpecReplay == InitReplay /\ [][NextReplay]_vars

\* ------------------------------------------------------- claims: replay

\* The engine has processed the whole stream.
Done(e) == pos[e] > Len(stream) /\ pc[e] = "idle"

\* The rule authority: the payer of the first stored rule, <<>> when none.
Authority(store) == IF store = <<>> THEN <<>> ELSE store[1].payerId

\* Message i of the stream was admitted by engine e.
Admitted(e, i) == stream[i].ts \in StoredTimestamps(rules[e])

\* C4 (checkpoint-resume equivalence): when both engines have processed the
\* stream, the engine that started at the checkpoint has the authority of the
\* engine that replayed everything, and admitted exactly the same messages
\* among those at or after the checkpoint.
C4_ResumeEquivalence ==
    (Done(1) /\ Done(2)) =>
        /\ Authority(rules[1]) = Authority(rules[2])
        /\ \A i \in 1..Len(stream) :
              stream[i].ts >= startDate[2] => (Admitted(1, i) <=> Admitted(2, i))

MaxPipeline == 2

\* A dispatcher that pipelines: the synchronous part of processMessage runs
\* for a message while closures of earlier messages are still held.  pending
\* is the queue of held closures in stream order, each with how far it ran.
PipeReceive(m) ==
    LET r == processMessage(rules[1], m)
    IN  /\ Len(pending[1]) < MaxPipeline
        /\ IF r.noop
             THEN /\ outcome' = [outcome EXCEPT ![1] = "NotFirstSubmitter"]
                  /\ UNCHANGED pending
             ELSE /\ outcome' = [outcome EXCEPT ![1] = "Deferred"]
                  /\ pending' = [pending EXCEPT ![1] = Append(@, [rule |-> r.rule, phase |-> "new"])]
        /\ UNCHANGED <<service, rules, pc, calls, stream, pos, startDate, config, voting>>

\* The closure of the validating service runs up to its await: the duplicate
\* check, then the token-info request is in flight.  Closures start in stream
\* order.
PipeStart ==
    /\ service = "validating"
    /\ \E i \in 1..Len(pending[1]) :
          /\ pending[1][i].phase = "new"
          /\ \A j \in 1..(i - 1) : pending[1][j].phase # "new"
          /\ pending' = [pending EXCEPT ![1][i].phase =
                IF RuleAlreadyExists(rules[1], pending[1][i].rule) THEN "exists" ELSE "awaiting"]
    /\ UNCHANGED <<service, rules, pc, outcome, calls, stream, pos, startDate, config, voting>>

\* The oldest held closure finishes, so that the store is written in stream
\* order: for the validating service what follows the await (the mirror's
\* answer, the verifications, setRule), for the other the whole closure.
PipeCommit ==
    /\ pending[1] # <<>>
    /\ LET head == pending[1][1]
           r == IF service = "plain" THEN PlainEffect(rules[1], head.rule)
                ELSE IF head.phase = "exists"
                  THEN [rules |-> rules[1], calls |-> 0, threw |-> FALSE, outcome |-> "RuleExists"]
                ELSE CatchAndLog(TryAddRule(rules[1], head.rule))
       IN  /\ service = "validating" => head.phase # "new"
           /\ rules' = [rules EXCEPT ![1] = r.rules]
           /\ calls' = [calls EXCEPT ![1] = r.calls]
           /\ outcome' = [outcome EXCEPT ![1] = r.outcome]
    /\ pending' = [pending EXCEPT ![1] = Tail(@)]
    /\ UNCHANGED <<service, pc, stream, pos, startDate, config, voting>>

\* The messages of the pipelined stream.
PipeMessages == [payer : Payers, ts : Timestamps, payload : ReplayPayloads]

NextPipelined == (\E m \in PipeMessages : PipeReceive(m)) \/ PipeStart \/ PipeCommit

\* One engine behind a dispatcher that pipelines.
SpecPipelined == Init /\ [][NextPipelined]_vars

\* ------------------------------------------------------ claims: pipelining

\* C18 (single authority under pipelining): with the synchronous part of
\* later messages running before the closures of earlier ones have finished,
\* and the store written in stream order, every stored rule has the payer of
\* the first stored rule and no consensus timestamp is stored twice.
C18_PipelinedSingleAuthority ==
    /\ \A i \in 1..Len(rules[1]) : rules[1][i].payerId = rules[1][1].payerId
    /\ Cardinality(StoredTimestamps(rules[1])) = Len(rules[1])

\* ------------------------------------------------------------ configuration

\* The largest timestamp, in seconds, that the environment and the clock take.
MaxSeconds == 100

\* HCS_TOPIC: a topic id, text that is no entity id, or nothing.
TopicOk == <<0, 0, 77>>
Topics == {TopicOk, <<0, 77>>, <<>>}

\* MIRROR_GRPC and MIRROR_REST: an endpoint, or nothing.
Endpoints == {"endpoint", Undefined}

Overrides == {NoOverride, EmptyOverride, BadOverride} \cup {StartAt(n) : n \in 0..MaxSeconds}

\* The environment the ConfigService reads, and the consensus time of message
\* one of the topic.
Environments ==
    [MIRROR_GRPC : Endpoints, MIRROR_REST : Endpoints, HCS_TOPIC : Topics,
     HCS_START_DATE : Overrides, messageOne : {1, 15}]

\* new Date() at startup, in seconds.
Nows == {10, 20}

\* loadAppConfiguration: the topic check, then the start date filter; either
\* error is logged and thrown again.
loadAppConfiguration(env, now) ==
    IF ~is_entity_id(env.HCS_TOPIC)
      THEN [threw |-> TRUE, error |-> "Invalid HCS Topic in configuration.", value |-> <<>>]
    ELSE LET hcsStartDate == computeStartDateFilter(env.HCS_START_DATE, now)
         IN  IF hcsStartDate.threw
               THEN [threw |-> TRUE, error |-> "Invalid HCS Starting Date", value |-> <<>>]
               ELSE [threw |-> FALSE, error |-> "",
                     value |-> <<[mirrorGrpc |-> env.MIRROR_GRPC,
                                  mirrorRest |-> env.MIRROR_REST,
                                  hcsTopic |-> env.HCS_TOPIC,
                                  hcsStartDate |-> hcsStartDate.value]>>]

\* A process about to start: its environment and its clock.
InitConfig ==
    /\ service \in Services
    /\ ballots = {} /\ votes = {} /\ clock = 0
    /\ rules = [e \in Engines |-> <<>>]
    /\ pc = [e \in Engines |-> "idle"]
    /\ pending = [e \in Engines |-> <<>>]
    /\ outcome = [e \in Engines |-> "None"]
    /\ calls = [e \in Engines |-> 0]
    /\ stream = <<>>
    /\ pos = [e \in Engines |-> 1]
    /\ startDate = [e \in Engines |-> 0]
    /\ \E env \in Environments, now \in Nows :
          config = [state |-> "starting", env |-> env, now |-> now, value |-> <<>>]

\* Startup: the configuration is loaded, or startup aborts.
Startup ==
    /\ config.state = "starting"
    /\ LET r == loadAppConfiguration(config.env, config.now)
       IN  config' = [config EXCEPT !.state = IF r.threw THEN "aborted" ELSE "loaded",
                                    !.value = r.value]
    /\ UNCHANGED <<service, rules, pc, pending, outcome, calls, stream, pos, startDate, voting>>

NextConfig == Startup

SpecConfig == InitConfig /\ [][NextConfig]_vars

\* ---------------------------------------------------- claims: configuration

\* HCS_START_DATE is given: it is set, and not to the empty string.
Given(override) == override.t \notin {"undefined", "empty"}

\* C13 (startup configuration): startup aborts exactly when HCS_TOPIC is no
\* entity id, or HCS_START_DATE is given and is no timestamp or is a timestamp
\* after the clock; when it does not abort, the configuration has the topic
\* id of the environment, a valid one, and as start timestamp the given
\* HCS_START_DATE, or '0.0' when none is given.
C13_StartupValidated ==
    config.state # "starting" =>
        LET env == config.env
            override == env.HCS_START_DATE
            mustFail ==
                \/ ~is_entity_id(env.HCS_TOPIC)
                \/ Given(override) /\ ~is_timestamp(override)
                \/ Given(override) /\ is_timestamp(override) /\ override.v > config.now
        IN  /\ config.state = "aborted" <=> mustFail
            /\ config.state = "loaded" =>
                  /\ is_entity_id(config.value[1].hcsTopic)
                  /\ config.value[1].hcsTopic = env.HCS_TOPIC
                  /\ config.value[1].hcsStartDate = IF Given(override) THEN override.v ELSE 0

\* C15 (start-time filter): the start timestamp of a loaded configuration is
\* the later of the consensus time of message one of the topic and, when one
\* is given, the HCS_START_DATE value.
C15_LaterOfMessageOneAndOverride ==
    config.state = "loaded" =>
        LET override == config.env.HCS_START_DATE
            given == IF Given(override) THEN override.v ELSE 0
        IN  config.value[1].hcsStartDate =
                IF given > config.env.messageOne THEN given ELSE config.env.messageOne

\* ------------------------------------------------------------------ voting

\* The number a validated period stands for: zero when it is not specified.
PeriodOf(x) == IF x.t = "number" THEN x.v ELSE 0

\* The rule in force: the latest rule of the store.
ActiveRule == getLatestRule(rules[1])[1]

\* A voter is on the rule's ineligible-accounts list.
Ineligible(rule, account) ==
    /\ rule.ineligibleAccounts.t = "array"
    /\ \E i \in 1..Len(rule.ineligibleAccounts.v) : rule.ineligibleAccounts.v[i] = account

\* A creator passes the rule: on the allow-list when one is configured, and
\* not on the ineligible-accounts list.
CreatorEligible(rule, account) ==
    /\ rule.ballotCreators.t = "array"
          => \E i \in 1..Len(rule.ballotCreators.v) : rule.ballotCreators.v[i] = account
    /\ ~Ineligible(rule, account)

getBallot(id) == {b \in ballots : b.id = id}

\* The ballot validator: "" when the ballot is admitted, the reason otherwise.
BallotRejection(m) ==
    IF rules[1] = <<>> THEN "no rule"
    ELSE IF ~CreatorEligible(ActiveRule, m.payer) THEN "creator not eligible"
    ELSE IF m.description = Undefined \/ Len(m.choices) < 2 THEN "fields missing"
    ELSE IF getBallot(m.ts) # {} THEN "ballot exists"
    ELSE ""

\* The stored ballot: its id is its consensus timestamp, and its voting window
\* is anchored there, with the standoff and period of the rule in force.
NewBallot(m, rule) ==
    [id |-> m.ts,
     creator |-> m.payer,
     choices |-> m.choices,
     standoff |-> PeriodOf(rule.minimumStandoffPeriod),
     period |-> PeriodOf(rule.minimumVotingPeriod),
     opens |-> m.ts + PeriodOf(rule.minimumStandoffPeriod),
     closes |-> m.ts + PeriodOf(rule.minimumStandoffPeriod) + PeriodOf(rule.minimumVotingPeriod)]

\* A window that is closed at both ends.
StatusClosedInterval(b, t) ==
    IF t < b.opens THEN "pending" ELSE IF t <= b.closes THEN "open" ELSE "closed"

\* The ballot's status at time t: open in [opens, closes).
Status(b, t) ==
    IF t < b.opens THEN "pending" ELSE IF t < b.closes THEN "open" ELSE "closed"

\* The vote validator: "" when the vote is admitted, the reason otherwise.
VoteRejection(m) ==
    IF rules[1] = <<>> THEN "no rule"
    ELSE IF getBallot(m.ballotId) = {} THEN "no ballot"
    ELSE IF \E b \in getBallot(m.ballotId) : Status(b, m.ts) # "open" THEN "ballot not open"
    ELSE IF Ineligible(ActiveRule, m.payer) THEN "voter not eligible"
    ELSE ""

\* getAccountTokenBalance: the voter's balance at the time of the vote; an
\* account the mirror does not know has none.
getAccountTokenBalance(account, ts) ==
    CASE account = Payer5 -> 1
      [] account = Payer6 -> ts
      [] OTHER -> 0

NewVote(m) ==
    [ballotId |-> m.ballotId, voter |-> m.payer, choice |-> m.choice,
     weight |-> getAccountTokenBalance(m.payer, m.ts), consensusTimestamp |-> m.ts]

\* An insert that keeps the vote already stored for the key.
setVoteKeepsFirst(store, vote) ==
    IF \E v \in store : v.ballotId = vote.ballotId /\ v.voter = vote.voter
      THEN store ELSE store \cup {vote}

\* Upsert keyed by ballot id and voter: a later vote replaces the earlier one.
setVote(store, vote) ==
    {v \in store : ~(v.ballotId = vote.ballotId /\ v.voter = vote.voter)} \cup {vote}

Standoffs == {0, 1}
\* Thresholds of the stored rule, in halves: 0 and 0.5.
Thresholds == {0, 1}
Periods == {0, 2}

\* A rule the validating service admitted from payer 0.0.5 at timestamp 0.
VotingRule(standoff, period) ==
    [BasePayload EXCEPT
        !.minimumStandoffPeriod = Num(standoff), !.minimumVotingPeriod = Num(period),
        !.ineligibleAccounts = Arr(<<Account9>>), !.ballotCreators = Arr(<<Payer5>>),
        !.payerId = Payer5]

Accounts == {Payer5, Payer6, Account9}
Choices == {"Yes", "No"}

\* The source delivers in consensus order: the next message is stamped at the
\* clock (a re-delivery) or one tick after it.
NextStamps == {t \in {clock, clock + 1} : t <= MaxTime}

BallotMessages ==
    [payer : {Payer5, Payer6}, ts : NextStamps, description : {Undefined, "Proposal"},
     choices : {<<"Yes">>, <<"Yes", "No">>}]

\* A vote names a stored ballot or a ballot id the store does not hold.
UnknownBallot == MaxTime + 1
VoteMessages ==
    [payer : Accounts, ts : NextStamps,
     ballotId : {b.id : b \in ballots} \cup {UnknownBallot}, choice : Choices]

\* The store holds no rule yet, or the one rule admitted at timestamp 0.
InitVoting ==
    /\ service = "validating"
    /\ \/ rules = [e \in Engines |-> <<>>]
       \/ \E s \in Standoffs, p \in Periods, th \in Thresholds :
            rules = [e \in Engines |->
                        IF e = 1
                          THEN <<[VotingRule(s, p) EXCEPT !.minVotingThreshold = Num(th)]>>
                          ELSE <<>>]
    /\ pc = [e \in Engines |-> "idle"]
    /\ pending = [e \in Engines |-> <<>>]
    /\ outcome = [e \in Engines |-> "None"]
    /\ calls = [e \in Engines |-> 0]
    /\ stream = <<>>
    /\ pos = [e \in Engines |-> 1]
    /\ startDate = [e \in Engines |-> 0]
    /\ ballots = {} /\ votes = {} /\ clock = 0 /\ config = NoConfig

\* A create-ballot message.
CreateBallot(m) ==
    /\ clock' = m.ts
    /\ LET why == BallotRejection(m)
       IN  IF why = ""
             THEN /\ Cardinality(ballots) < MaxBallots
                  /\ ballots' = ballots \cup {NewBallot(m, ActiveRule)}
                  /\ outcome' = [outcome EXCEPT ![1] = "BallotAdded"]
             ELSE /\ UNCHANGED ballots
                  /\ outcome' = [outcome EXCEPT ![1] = why]
    /\ UNCHANGED <<service, rules, pc, pending, calls, stream, pos, startDate, config, votes>>

\* The voter has a vote stored for the ballot.
HasVoted(ballotId, voter) == \E v \in votes : v.ballotId = ballotId /\ v.voter = voter

\* A cast-vote message: the checks, then the balance lookup and the upsert.
CastVote(m) ==
    /\ clock' = m.ts
    /\ LET why == VoteRejection(m)
       IN  IF why = ""
             THEN /\ votes' = setVote(votes, NewVote(m))
                  /\ outcome' = [outcome EXCEPT ![1] =
                        IF HasVoted(m.ballotId, m.payer) THEN "VoteReplaced" ELSE "VoteAdded"]
             ELSE /\ UNCHANGED votes
                  /\ outcome' = [outcome EXCEPT ![1] = why]
    /\ UNCHANGED <<service, rules, pc, pending, calls, stream, pos, startDate, config, ballots>>

NextVoting ==
    \/ \E m \in BallotMessages : CreateBallot(m)
    \/ \E m \in VoteMessages : CastVote(m)

\* Ballots and votes under an admitted rule.
SpecVoting == InitVoting /\ [][NextVoting]_vars

\* ------------------------------------------------------------------- tally

\* The total supply of the rule's token, from its resolved metadata.
TotalSupply == 4

\* The threshold in force, in halves: zero when the rule specifies none.
ThresholdOf(x) == IF x.t = "number" THEN x.v ELSE 0

RECURSIVE SumWeights(_)
\* The total weight of a set of votes.
SumWeights(vs) ==
    IF vs = {} THEN 0
    ELSE LET v == CHOOSE w \in vs : TRUE IN v.weight + SumWeights(vs \ {v})

\* The weight cast on the ballot for each of its options.
OptionWeights(b) ==
    [i \in 1..Len(b.choices) |->
        SumWeights({v \in votes : v.ballotId = b.id /\ v.choice = b.choices[i]})]

\* A tally in which options tied for the lead both count as leading.
OutcomeTiesPass(b, t) ==
    IF Status(b, t) # "closed" THEN "undetermined"
    ELSE LET w == OptionWeights(b)
             lead == CHOOSE i \in 1..Len(w) : \A j \in 1..Len(w) : w[j] <= w[i]
         IN  IF w[lead] * ThresholdOne >= ThresholdOf(ActiveRule.minVotingThreshold) * TotalSupply
               THEN "passed" ELSE "failed"

\* The tally's outcome at time t: undetermined until the ballot is closed, then
\* passed when a single leading option has a share of the supply at or above
\* the threshold, failed otherwise.
Outcome(b, t) ==
    IF Status(b, t) # "closed" THEN "undetermined"
    ELSE LET w == OptionWeights(b)
             lead == CHOOSE i \in 1..Len(w) : \A j \in 1..Len(w) : w[j] <= w[i]
             tied == \E j \in 1..Len(w) : j # lead /\ w[j] = w[lead]
         IN  IF tied THEN "failed"
             ELSE IF w[lead] * ThresholdOne >= ThresholdOf(ActiveRule.minVotingThreshold) * TotalSupply
               THEN "passed" ELSE "failed"

\* ----------------------------------------------------------------- read API

\* DataService.getBallotAndVotes: the ballot with its votes and tally, or
\* nothing when the store holds no ballot with the id.
getBallotAndVotes(ballotId) ==
    IF getBallot(ballotId) = {} THEN <<>>
    ELSE LET b == CHOOSE x \in getBallot(ballotId) : TRUE
         IN  <<[ballot |-> b,
                votes |-> {v \in votes : v.ballotId = ballotId},
                tally |-> Outcome(b, clock)]>>

\* A handler that answers with whatever the lookup gave.
getBallotNoThrow(ballotId) ==
    [status |-> "Ok", body |-> getBallotAndVotes(ballotId)]

\* AppController.getBallot: the result when there is one, NotFoundException
\* otherwise.
AppController_getBallot(ballotId) ==
    LET result == getBallotAndVotes(ballotId)
    IN  IF result # <<>> THEN [status |-> "Ok", body |-> result]
        ELSE [status |-> "NotFound", body |-> <<>>]

\* ------------------------------------------------------- claims: voting

\* The cast-vote message of a voter on a stored ballot.
VoteAt(b, voter, choice, t) == [payer |-> voter, ts |-> t, ballotId |-> b.id, choice |-> choice]

\* The cast-vote messages on stored ballots that may come next.
VotesNow == {VoteAt(b, voter, choice, t) : b \in ballots, voter \in Accounts, choice \in Choices, t \in NextStamps}

\* t lies in [T+S, T+S+P) of ballot b.
InWindow(b, t) == b.id + b.standoff <= t /\ t < b.id + b.standoff + b.period

\* Message m, processed now, is admitted and its vote stored.
VoteAccepted(m) == ENABLED (CastVote(m) /\ NewVote(m) \in votes')

\* Message m, processed now, is rejected because its ballot is not open, and
\* the votes stay as they are.
VoteTurnedAway(m) ==
    ENABLED (CastVote(m) /\ votes' = votes /\ outcome'[1] = "ballot not open")

\* C9 (half-open voting window): every stored vote is stamped inside the
\* window [T+S, T+S+P) of its ballot, T the ballot's admission and S and P
\* the standoff and period of the rule it was admitted under; a cast-vote
\* message stamped outside the window is rejected and leaves the votes as they
\* are; an eligible voter's message stamped inside it, the opening instant
\* T+S included, is admitted.
C9_HalfOpenWindow ==
    /\ \A v \in votes : \E b \in getBallot(v.ballotId) : InWindow(b, v.consensusTimestamp)
    /\ \A m \in VotesNow : \A b \in getBallot(m.ballotId) :
          IF ~InWindow(b, m.ts) THEN VoteTurnedAway(m)
          ELSE IF ~Ineligible(ActiveRule, m.payer) THEN VoteAccepted(m)
          ELSE TRUE

\* C9 witness: a vote stamped at the opening instant T+S of a ballot with a
\* standoff is stored, and a message stamped at the closing instant T+S+P was
\* turned away because the ballot was not open.
C9_Witness ==
    /\ outcome[1] = "ballot not open"
    /\ \E v \in votes : \E b \in getBallot(v.ballotId) :
          /\ b.standoff > 0 /\ b.period > 0
          /\ v.consensusTimestamp = b.id + b.standoff
          /\ clock = b.id + b.standoff + b.period

\* The votes stored for the key of message m.
VotesOf(store, m) == {v \in store : v.ballotId = m.ballotId /\ v.voter = m.payer}

\* What a cast-vote message that was not admitted logs.
VoteRejections == {"no rule", "no ballot", "ballot not open", "voter not eligible"}

\* Message m, processed now, is either rejected with the votes unchanged, or
\* admitted, and then the votes of its ballot and voter are its own vote alone
\* and every other vote is as it was.
UpsertsOrRejects(m) ==
    ENABLED (/\ CastVote(m)
             /\ IF outcome'[1] \in VoteRejections THEN votes' = votes
                ELSE /\ outcome'[1] \in {"VoteAdded", "VoteReplaced"}
                     /\ VotesOf(votes', m) =
                           {[ballotId |-> m.ballotId, voter |-> m.payer, choice |-> m.choice,
                             weight |-> getAccountTokenBalance(m.payer, m.ts),
                             consensusTimestamp |-> m.ts]}
                     /\ votes' \ VotesOf(votes', m) = votes \ VotesOf(votes, m))

\* C10 (last writer wins): the store holds at most one vote per ballot and
\* voter, and every admitted cast-vote message leaves, for its ballot and
\* voter, exactly its own vote (its choice, and the weight the balance lookup
\* gave for it) whatever was stored for them before, and every other vote as
\* it was; a rejected one changes nothing.
C10_LastWriterWins ==
    /\ \A v, w \in votes : (v.ballotId = w.ballotId /\ v.voter = w.voter) => v = w
    /\ \A m \in VotesNow : UpsertsOrRejects(m)

\* C10 witness: the second vote of account 0.0.6 on a ballot, stamped after
\* the ballot opened and so weighing more than a vote at the opening, has
\* replaced its first, while another voter's vote on the ballot stayed.
C10_Witness ==
    /\ outcome[1] = "VoteReplaced"
    /\ Cardinality(votes) = 2
    /\ \E v \in votes : \E b \in getBallot(v.ballotId) :
          /\ v.voter = Payer6
          /\ v.consensusTimestamp = clock
          /\ v.consensusTimestamp > b.opens

\* The weight account a casts on option c of ballot b: that of its one vote.
WeightFrom(b, c, a) ==
    IF \E v \in votes : v.ballotId = b.id /\ v.voter = a /\ v.choice = c
      THEN (CHOOSE v \in votes : v.ballotId = b.id /\ v.voter = a /\ v.choice = c).weight
      ELSE 0

\* The weight cast on option c of ballot b, account by account.
WeightOn(b, c) == WeightFrom(b, c, Payer5) + WeightFrom(b, c, Payer6) + WeightFrom(b, c, Account9)

\* Option c alone leads ballot b, with a share of the supply at or above the
\* rule's threshold.
LeadsAndMeets(b, c) ==
    /\ \A i \in 1..Len(b.choices) : b.choices[i] # c => WeightOn(b, b.choices[i]) < WeightOn(b, c)
    /\ WeightOn(b, c) * ThresholdOne >= ThresholdOf(ActiveRule.minVotingThreshold) * TotalSupply

\* C11 (tally outcome): the outcome of every stored ballot is undetermined
\* while the ballot is pending or open; once it is closed the outcome is
\* passed exactly when one option alone leads and its weight divided by the
\* total supply is at or above the rule's threshold, and failed otherwise, a
\* tie for the lead included.
C11_TallyOutcome ==
    \A b \in ballots :
        IF clock < b.closes THEN Outcome(b, clock) = "undetermined"
        ELSE /\ Outcome(b, clock) \in {"passed", "failed"}
             /\ Outcome(b, clock) = "passed" <=>
                   \E i \in 1..Len(b.choices) : LeadsAndMeets(b, b.choices[i])

\* C11 witness: a closed ballot on which two options tie for the lead with a
\* weight that meets the threshold, and whose outcome is failed.
C11_Witness ==
    \E b \in ballots :
        /\ clock >= b.closes
        /\ WeightOn(b, "Yes") = WeightOn(b, "No")
        /\ WeightOn(b, "Yes") > 0
        /\ ThresholdOf(ActiveRule.minVotingThreshold) = 0
        /\ Outcome(b, clock) = "failed"

\* The ballot ids a request may name.
BallotIds == 0..UnknownBallot

\* C14 (ballot lookup): a request for a ballot id is answered with the stored
\* ballot of that id, its votes and its tally when the store holds one, and
\* with NotFound exactly when it holds none, never with an empty success; and
\* the store holds a ballot of every id it held before any later message, so
\* that an id once found stays found.
C14_BallotLookup ==
    /\ [](\A id \in BallotIds :
            LET r == AppController_getBallot(id)
            IN  IF \E b \in ballots : b.id = id
                  THEN /\ r.status = "Ok"
                       /\ r.body # <<>>
                       /\ r.body[1].ballot \in ballots /\ r.body[1].ballot.id = id
                       /\ r.body[1].votes = {v \in votes : v.ballotId = id}
                       /\ r.body[1].tally = Outcome(r.body[1].ballot, clock)
                  ELSE r.status = "NotFound")
    /\ [][\A b \in ballots : \E c \in ballots' : c.id = b.id]_vars

\* C14 witness: a stored ballot with a vote is found, after a later message,
\* while a request for an id the store does not hold is answered NotFound.
C14_Witness ==
    /\ \E b \in ballots :
          /\ AppController_getBallot(b.id).status = "Ok"
          /\ AppController_getBallot(b.id).body[1].votes # {}
          /\ clock > b.id
    /\ AppController_getBallot(UnknownBallot).status = "NotFound"

\* ------------------------------------------- claims: pipeline, continued

\* A rule as the specification admits it: a token the mirror resolves, account
\* lists absent or well-formed, economics absent or in range.
ValidRule(rule) ==
    /\ is_entity_id(rule.tokenId) /\ ~getTokenInfo(rule.tokenId).threw
    /\ AbsentOrAccountList(rule.ineligibleAccounts)
    /\ AbsentOrAccountList(rule.ballotCreators)
    /\ AbsentOrWithin(rule.minVotingThreshold, 0, ThresholdOne)
    /\ AbsentOrNonNegative(rule.minimumVotingPeriod)
    /\ AbsentOrNonNegative(rule.minimumStandoffPeriod)

\* The pending closure, run now, either admits its rule or fails validation,
\* and when it fails the rules and the authority are as they were.
FailureStoresNothing ==
    ENABLED (/\ RunEffect(1)
             /\ outcome'[1] \in Rejections \cup {"Added"}
             /\ outcome'[1] \in Rejections => rules' = rules)

\* Message m, dispatched now, gets a closure to run.
Deferred(m) == ENABLED (Dispatch(1, m) /\ pc'[1] = "effect" /\ pending'[1] = <<BuildRule(m)>>)

\* The pending closure, run now, stores its rule as the first rule.
AdmittedAsFirst ==
    ENABLED (/\ RunEffect(1)
             /\ outcome'[1] = "Added"
             /\ Len(rules'[1]) = 1
             /\ Authority(rules'[1]) = pending[1][1].payerId)

\* C16 (authority only by an admitted rule): a define-rules message that fails
\* validation leaves the rules, and so the authority, as they were; and while
\* no rule is stored, whatever messages failed before, a valid define-rules
\* message of any payer gets its closure, and the closure stores its rule and
\* makes its payer the authority.
C16_AuthorityByAdmission ==
    /\ pc[1] = "effect" => FailureStoresNothing
    /\ (rules[1] = <<>> /\ pc[1] = "idle") =>
          \A m \in Messages : ValidRule(BuildRule(m)) => Deferred(m)
    /\ (rules[1] = <<>> /\ pc[1] = "effect" /\ ValidRule(pending[1][1])) => AdmittedAsFirst

\* C16 witness: the validating service holds no rule after the mirror failed
\* on a message, and a valid message of payer 0.0.6 coming next gets its
\* closure.
C16_Witness ==
    /\ service = "validating"
    /\ rules[1] = <<>>
    /\ pc[1] = "idle"
    /\ outcome[1] = "token unreachable"
    /\ calls[1] = 1
    /\ \E m \in Messages : m.payer = Payer6 /\ ValidRule(BuildRule(m)) /\ Deferred(m)

\* What a message logs when the authority check, the duplicate check or a
\* check of a field's range or shape turns it away.
LocalRejections ==
    {"NotFirstSubmitter", "RuleExists", "ineligibleAccounts", "ballotCreators",
     "minVotingThreshold", "minimumVotingPeriod", "minimumStandoffPeriod"}

\* C17 as claimed: a message turned away by the authority check, the
\* duplicate check or a field check is turned away by the synchronous part,
\* which returns the no-op, and no token-info request is made for it.
C17_LocalChecksFirst ==
    [][outcome'[1] \in LocalRejections
          => (calls'[1] = 0 /\ pc[1] = "idle" /\ pc'[1] = "idle")]_vars

\* C17 amended: the authority check turns a message away in the synchronous
\* part, with the no-op and no token-info request; the duplicate check and
\* the checks of the token id's presence and shape turn it away inside the
\* closure, before any request; the checks of the account lists and of the
\* economics run after the token-info request, so that a message they turn
\* away, like one the mirror fails on, has made exactly one.
C17_GatewayBeforeFieldChecks ==
    /\ outcome[1] = "NotFirstSubmitter" => (calls[1] = 0 /\ pc[1] = "idle" /\ pending[1] = <<>>)
    /\ outcome[1] \in {"RuleExists", "token missing", "token invalid"} => calls[1] = 0
    /\ outcome[1] \in {"token 404", "token unreachable", "ineligibleAccounts", "ballotCreators",
                        "minVotingThreshold", "minimumVotingPeriod", "minimumStandoffPeriod"}
          => calls[1] = 1

\* C17 witness: a message with a threshold out of range was turned away after
\* its token-info request, with a rule already stored.
C17_Witness ==
    /\ outcome[1] = "minVotingThreshold"
    /\ calls[1] = 1
    /\ rules[1] # <<>>

\* Message m, dispatched now, is turned away exactly when the first stored
\* rule has another payer than the mirror record, and otherwise the rule its
\* closure holds has the mirror record's payer and consensus timestamp.
IdentityFromTransport(m) ==
    ENABLED (/\ Dispatch(1, m)
             /\ outcome'[1] = "NotFirstSubmitter"
                   <=> (rules[1] # <<>> /\ rules[1][1].payerId # m.payer)
             /\ outcome'[1] # "NotFirstSubmitter" =>
                   /\ pending'[1][1].payerId = m.payer
                   /\ pending'[1][1].consensusTimestamp = m.ts)

\* C19 (payload cannot spoof identity): whatever the payload carries, fields
\* named payerId and consensusTimestamp included, the rule built from a
\* message has the payer and the consensus timestamp of the mirror record;
\* the authority check compares the mirror record's payer, and the duplicate
\* check finds a rule exactly when one is stored under the mirror record's
\* consensus timestamp.
C19_IdentityFromTransport ==
    /\ pc[1] = "idle" => \A m \in Messages : IdentityFromTransport(m)
    /\ pc[1] = "effect" =>
          ENABLED (/\ RunEffect(1)
                   /\ outcome'[1] = "RuleExists"
                         <=> pending[1][1].consensusTimestamp \in StoredTimestamps(rules[1]))

\* C19 witness: the closure of a message of payer 0.0.5 at timestamp 2, whose
\* payload names payer 0.0.6 and timestamp 1, holds a rule of payer 0.0.5 at
\* timestamp 2, with a rule of payer 0.0.5 stored.
C19_Witness ==
    /\ pc[1] = "effect"
    /\ pending[1][1].title = AltPayload.title
    /\ pending[1][1].ballotCreators = AltPayload.ballotCreators
    /\ AltPayload.payerId = Payer6 /\ AltPayload.consensusTimestamp = 1
    /\ pending[1][1].payerId = Payer5
    /\ pending[1][1].consensusTimestamp = 2
    /\ rules[1] # <<>>

\* A title or description is given: present, and not the empty string.
GivenText(x) == x # Undefined /\ x # ""

\* The rule that admission of the built rule r is to store: r, with the
\* token's symbol for a title not given and its name for a description not
\* given.
Backfilled(r) ==
    [r EXCEPT
        !.title = IF GivenText(r.title) THEN r.title ELSE getTokenInfo(r.tokenId).symbol,
        !.description =
            IF GivenText(r.description) THEN r.description ELSE getTokenInfo(r.tokenId).name]

====
